---- MODULE Spec2Model ----
(***************************************************************************)
(* Model of src/utils/dataset.py: SAMRamanDataset (an indexable wrapper    *)
(* over parallel data / label sequences) and SAMRaman (label vocabulary,   *)
(* train / validation / test partitioning in pre-split or generation mode, *)
(* and the three DataLoaders).                                             *)
(*                                                                         *)
(* A file is represented by the array np.load returns for it.  A spectrum  *)
(* (one row of a spectra array) is represented by a unique integer row id, *)
(* so that the identity of every sample can be followed into the           *)
(* partitions.  Python sequences are 0-based; the TLA+ sequences holding   *)
(* them are 1-based, index values (patient indices, idx arguments) keep    *)
(* their Python value.                                                     *)
(***************************************************************************)
EXTENDS Integers, Sequences, FiniteSets, TLC

VARIABLES
    cfg,          \* the constructor arguments of SAMRaman (with the loaded file contents)
    np_state,     \* state of numpy's process-wide random generator
    torch_state,  \* state of torch's process-wide random generator
    builds,       \* number of SAMRaman constructions made so far
    status,       \* "none" (not constructed), "ok", or the exception construction raised
    label_map,    \* self.label_map
    inverse_map,  \* self.inverse_map
    train_set,    \* self.train_set : [data, labels]
    val_set,      \* self.val_set
    test_set,     \* self.test_set
    earlier,      \* outcome of the previous construction, kept by the caller
    it,           \* the batch iterator in use (one pass over one loader)
    prev_pass,    \* the last pass that ran to its end
    passes,       \* number of passes started on the current object
    draws         \* draws other code made from numpy's generator since the last construction

vars == <<cfg, np_state, torch_state, builds, status, label_map, inverse_map,
          train_set, val_set, test_set, earlier, it, prev_pass, passes, draws>>

----------------------------------------------------------------------------
(* Bounds of the model *)

MaxLen      == 4   \* rows in the first source / group file
MaxLen2     == 1   \* rows in the second source file (generation mode)
MaxP        == 2   \* patient interval
MaxSeed     == 1   \* seed argument
MaxBatch    == 2   \* batch_size argument
MaxBuilds   == 2   \* constructions in one run
MaxPasses   == 2   \* passes over the loaders of one object
MaxDraws    == 2   \* draws of other code between two constructions
MaxIdx      == 5   \* |idx| passed to __getitem__
MaxCount    == 90  \* rows of the single-label source in SpecCount
RngStates   == 8   \* number of states of the modelled random generators

RawLabels   == {3, 7}      \* raw label values found in the files
None        == "None"

----------------------------------------------------------------------------
(* Python / numpy primitives *)

Min(a, b) == IF a < b THEN a ELSE b
Max(a, b) == IF a > b THEN a ELSE b

Range(s) == {s[i] : i \in DOMAIN s}

\* s[a:b] for 0 <= a
PySlice(s, a, b) ==
    LET hi == Min(b, Len(s))
    IN  IF a >= hi THEN <<>> ELSE SubSeq(s, a + 1, hi)

\* [v] * n
Repeat(v, n) == [i \in 1..n |-> v]

\* np.arange(n)
Arange(n) == [i \in 1..n |-> i - 1]

RECURSIVE SortedSeq(_)
\* the elements of a finite set of integers in ascending order
SortedSeq(S) ==
    IF S = {} THEN <<>>
    ELSE LET m == CHOOSE x \in S : \A y \in S : x <= y
         IN  <<m>> \o SortedSeq(S \ {m})

\* np.unique(labels): the distinct values, sorted ascending
NpUnique(labels) == SortedSeq(Range(labels))

RECURSIVE Flatten(_)
\* labels.extend(a) for every array a of the list, in order
Flatten(arrays) ==
    IF arrays = <<>> THEN <<>> ELSE Head(arrays) \o Flatten(Tail(arrays))

\* spectra[labels == l]: the rows at the positions where labels equals l
Mask(spectra, labels, l) ==
    LET keep == SelectSeq([i \in 1..Len(labels) |-> i], LAMBDA i : labels[i] = l)
    IN  [k \in 1..Len(keep) |-> spectra[keep[k]]]

\* a[idxs] (numpy fancy indexing with a list of 0-based indices)
Take(a, idxs) == [k \in 1..Len(idxs) |-> a[idxs[k] + 1]]

----------------------------------------------------------------------------
(* Random generators.  The Mersenne Twister is abstracted to a small       *)
(* congruential generator: seeding fixes the state, every draw advances    *)
(* it, and a permutation is a Fisher-Yates shuffle fed by the draws.       *)

LCGNext(s) == (5 * s + 3) % RngStates

\* np.random.seed(seed) / RandomState(seed)
SeedState(seed) == seed % RngStates

\* one step of the shuffle: j = draw in [0, i]; swap x[i], x[j]
ShuffleStep(x, i, s) ==
    LET s1 == LCGNext(s)
        j  == s1 % (i + 1)
    IN  [arr |-> [x EXCEPT ![i + 1] = x[j + 1], ![j + 1] = x[i + 1]], rng |-> s1]

RECURSIVE Shuffle(_, _, _)
\* the rest of the shuffle once its first steps have produced `first`
ShuffleRest(first, hi, lo) ==
    IF first.rng >= 0 THEN Shuffle(first, hi, lo) ELSE first

\* the steps i = hi, hi - 1, ..., lo of the shuffle applied to r = [arr, rng]
\* (the range is halved, and each half finished before the next starts, to
\* keep the evaluation shallow)
Shuffle(r, hi, lo) ==
    IF hi < lo THEN r
    ELSE IF hi = lo THEN ShuffleStep(r.arr, hi, r.rng)
    ELSE ShuffleRest(Shuffle(r, hi, ((hi + lo) \div 2) + 1), (hi + lo) \div 2, lo)

\* rng.permutation(x): for i in reversed(range(1, n)): swap x[i], x[draw];
\* the permuted copy and the generator state afterwards
Permutation(x, s) == Shuffle([arr |-> x, rng |-> s], Len(x) - 1, 1)

----------------------------------------------------------------------------
(* SAMRaman._get_label_mapping, inverse_map, _get_original_label *)

\* the list `labels` gathered from the label files of the selected mode
GatheredLabels(c) ==
    IF c.use_pre_split
    THEN Flatten(c.train_labels_path) \o Flatten(c.test_labels_path)
    ELSE Flatten(c.label_dirs)

\* {l: idx for idx, l in enumerate(labels)} (no np.unique): a later
\* occurrence overwrites the index of an earlier one
LabelMapOf_NoUnique(labels) ==
    [l \in Range(labels) |->
        (CHOOSE i \in 1..Len(labels) :
            labels[i] = l /\ \A j \in (i + 1)..Len(labels) : labels[j] # l) - 1]

\* {l: idx for idx, l in enumerate(np.unique(labels))}
LabelMapOf(labels) ==
    LET u == NpUnique(labels)
    IN  [l \in Range(u) |-> (CHOOSE i \in 1..Len(u) : u[i] = l) - 1]

\* {idx: l for l, idx in label_map.items()}: with two labels on one idx the
\* one iterated last (the larger key of a map built in ascending order) stays
InverseMapOf(lm) ==
    [idx \in {lm[l] : l \in DOMAIN lm} |->
        CHOOSE l \in DOMAIN lm :
            lm[l] = idx /\ \A k \in DOMAIN lm : lm[k] = idx => k <= l]

\* _get_original_label(pred_idx): self.inverse_map[pred_idx], KeyError if absent
GetOriginalLabel(pred_idx) ==
    IF pred_idx \in DOMAIN inverse_map THEN inverse_map[pred_idx] ELSE "KeyError"

----------------------------------------------------------------------------
(* Split boundaries of generation mode.  int(c * n) is evaluated in IEEE   *)
(* double arithmetic.  The double nearest to 0.7 is 0.7 - (4/10) * 2^-53   *)
(* and 0.7 + 0.15 evaluates to the double nearest to 0.85, which is        *)
(* 0.85 - (4/20) * 2^-53.  With c = a/b - (e/b) * 2^-53 the exact product  *)
(* c * n lies just below a*n/b.  When b does not divide a*n the rounding   *)
(* cannot reach an integer and int() gives floor(a*n/b).  When it does,    *)
(* q = a*n/b, the product q - (n*e/b) * 2^-53 lies in the binade           *)
(* [2^k, 2^(k+1)) with 2^k < q <= 2^(k+1), whose doubles are 2^(k+1) units *)
(* of 2^-53 apart; round-to-nearest-even returns q unless the deficit      *)
(* n*e/b exceeds half that spacing, 2^k, and then returns a double below   *)
(* q, which int() truncates to q - 1.                                      *)

RECURSIVE Pow2BelowFrom(_, _)
Pow2BelowFrom(q, k) == IF 2 * k < q THEN Pow2BelowFrom(q, 2 * k) ELSE k

\* the largest power of two strictly below q (1 for q <= 2)
Pow2Below(q) == Pow2BelowFrom(q, 1)

\* int(c * n) for the double c nearest to a/b, c = a/b - (e/b) * 2^-53
DoubleMulInt(a, b, e, n) ==
    LET exact == (a * n) \div b
    IN  IF n > 0 /\ (a * n) % b = 0 /\ n * e > b * Pow2Below(exact)
        THEN exact - 1
        ELSE exact

\* train_split_end = int(train_split * num_patients), train_split = 0.7
TrainSplitEnd(num_patients) == DoubleMulInt(7, 10, 4, num_patients)

\* int(validation_split * num_patients): the boundary taken from the
\* validation fraction alone (0.15 = 3/20 - (4/20) * 2^-55) instead of the
\* cumulative one
ValidationSplitEnd_NotCumulative(num_patients) == (3 * num_patients) \div 20

\* validation_split_end = int((train_split + validation_split) * num_patients)
ValidationSplitEnd(num_patients) == DoubleMulInt(17, 20, 4, num_patients)

----------------------------------------------------------------------------
(* Generation mode of SAMRaman._get_splits *)

EmptySet == [data |-> <<>>, labels |-> <<>>]

\* label_spectra[i * p_int : i * p_int + p_int]
Block(label_spectra, i, p_int) == PySlice(label_spectra, i * p_int, i * p_int + p_int)

\* for i in idxs: s["data"].extend(block i); s["labels"].extend([code] * p_int)
\* (every i is below num_patients, so every block has p_int rows)
ExtendBlocks(s, idxs, label_spectra, code, p_int) ==
    [data   |-> s.data \o [j \in 1..(Len(idxs) * p_int) |->
                    Block(label_spectra, idxs[((j - 1) \div p_int) + 1], p_int)
                        [((j - 1) % p_int) + 1]],
     labels |-> s.labels \o Repeat(code, Len(idxs) * p_int)]

\* the body of `for l in np.unique(labels)` for one label l
GenGroup(acc, label_spectra, code, p_int) ==
    LET num_patients         == Len(label_spectra) \div p_int
        perm                 == Permutation(Arange(num_patients), acc.rng)
        patient_idxs         == perm.arr
        train_split_end      == TrainSplitEnd(num_patients)
        validation_split_end == ValidationSplitEnd(num_patients)
    IN  [train |-> ExtendBlocks(acc.train, PySlice(patient_idxs, 0, train_split_end),
                                label_spectra, code, p_int),
         val   |-> ExtendBlocks(acc.val,
                                PySlice(patient_idxs, train_split_end, validation_split_end),
                                label_spectra, code, p_int),
         test  |-> ExtendBlocks(acc.test,
                                PySlice(patient_idxs, validation_split_end, num_patients),
                                label_spectra, code, p_int),
         rng   |-> perm.rng]

RECURSIVE GenLabels(_, _, _, _, _, _)
\* for l in np.unique(labels): ...
GenLabels(acc, spectra, labels, p_int, uniq, lm) ==
    IF uniq = <<>> THEN acc
    ELSE GenLabels(GenGroup(acc, Mask(spectra, labels, Head(uniq)), lm[Head(uniq)], p_int),
                   spectra, labels, p_int, Tail(uniq), lm)

\* zip(a, b, c) stops at the shortest list
ZipLen3(a, b, c) == Min(Len(a), Min(Len(b), Len(c)))

RECURSIVE GenSources(_, _, _, _)
\* for spectral_path, label_path, p_int in zip(...): ...
GenSources(acc, c, k, lm) ==
    IF k > ZipLen3(c.spectral_dirs, c.label_dirs, c.patient_intervals) THEN acc
    ELSE GenSources(GenLabels(acc, c.spectral_dirs[k], c.label_dirs[k],
                              c.patient_intervals[k], NpUnique(c.label_dirs[k]), lm),
                    c, k + 1, lm)

\* the else branch of _get_splits; rng is numpy's global generator
GenSplits(c, lm, rng) ==
    LET r == GenSources([train |-> EmptySet, val |-> EmptySet, test |-> EmptySet,
                         rng |-> rng], c, 1, lm)
    IN  [error |-> None, train |-> r.train, val |-> r.val, test |-> r.test, rng |-> r.rng]

----------------------------------------------------------------------------
(* Pre-split mode of SAMRaman._get_splits.  train_test_split(data, labels, *)
(* test_size=0.25, stratify=labels, random_state=seed) is sklearn's        *)
(* StratifiedShuffleSplit with one split.                                  *)

RECURSIVE Sum(_)
Sum(s) == IF s = <<>> THEN 0 ELSE Head(s) + Sum(Tail(s))

\* np.bincount(y_indices): the number of members of every class of np.unique(y)
ClassCounts(y) ==
    LET u == NpUnique(y)
    IN  [i \in 1..Len(u) |-> Cardinality({k \in DOMAIN y : y[k] = u[i]})]

RECURSIVE AddByRemainder(_, _, _, _, _)
\* for value in the distinct remainders, largest first: draw
\* min(len(inds), need_to_add) of the classes inds with that remainder
\* (rng.choice without replacement) and give each one more member
AddByRemainder(floored, remainder, values, need_to_add, rng) ==
    IF need_to_add <= 0 \/ values = <<>> THEN [n |-> floored, rng |-> rng]
    ELSE LET value   == values[Len(values)]
             inds    == SortedSeq({i \in DOMAIN remainder : remainder[i] = value})
             add_now == Min(Len(inds), need_to_add)
             drawn   == Permutation(inds, rng)
             chosen  == Range(SubSeq(drawn.arr, 1, add_now))
         IN  AddByRemainder(
                [i \in DOMAIN floored |-> floored[i] + (IF i \in chosen THEN 1 ELSE 0)],
                remainder, SubSeq(values, 1, Len(values) - 1),
                need_to_add - add_now, drawn.rng)

\* sklearn _approximate_mode(class_counts, n_draws, rng); remainders are
\* compared by their numerators over the common denominator sum(class_counts)
ApproximateMode(class_counts, n_draws, rng) ==
    LET total     == Sum(class_counts)
        floored   == [i \in DOMAIN class_counts |->
                        IF total = 0 THEN 0 ELSE (class_counts[i] * n_draws) \div total]
        remainder == [i \in DOMAIN class_counts |->
                        IF total = 0 THEN 0 ELSE (class_counts[i] * n_draws) % total]
    IN  AddByRemainder(floored, remainder, SortedSeq(Range(remainder)),
                       n_draws - Sum(floored), rng)

RECURSIVE SplitClasses(_, _, _, _, _, _)
\* for i in range(n_classes): permute the members of class i, the first
\* n_i[i] go to train, the next t_i[i] to test
SplitClasses(acc, y, classes, n_i, t_i, i) ==
    IF i > Len(classes) THEN acc
    ELSE LET class_indices == Mask(Arange(Len(y)), y, classes[i])
             perm          == Permutation(Arange(Len(class_indices)), acc.rng)
             perm_indices  == Take(class_indices, perm.arr)
         IN  SplitClasses(
                [train |-> acc.train \o PySlice(perm_indices, 0, n_i[i]),
                 test  |-> acc.test \o PySlice(perm_indices, n_i[i], n_i[i] + t_i[i]),
                 rng   |-> perm.rng],
                y, classes, n_i, t_i, i + 1)

\* train = rng.permutation(train); test = rng.permutation(test)
PermuteBoth(picked) ==
    LET train == Permutation(picked.train, picked.rng)
    IN  [error |-> None, train |-> train.arr,
         test |-> Permutation(picked.test, train.rng).arr]

\* class_counts_remaining = class_counts - n_i
Remaining(class_counts, n_i) == [i \in DOMAIN class_counts |-> class_counts[i] - n_i[i]]

\* t_i = _approximate_mode(class_counts_remaining, n_test, rng), then the
\* members of every class are drawn and both index lists permuted
AssignTest(y, n_test, n_i) ==
    LET t_i == ApproximateMode(Remaining(ClassCounts(y), n_i.n), n_test, n_i.rng)
    IN  PermuteBoth(SplitClasses([train |-> <<>>, test |-> <<>>, rng |-> t_i.rng],
                                 y, NpUnique(y), n_i.n, t_i.n, 1))

\* StratifiedShuffleSplit._iter_indices, first split: the train and test
\* indices, or the ValueError it raises; rng = RandomState(seed),
\* n_i = _approximate_mode(class_counts, n_train, rng)
StratifiedIndices(y, n_train, n_test, seed) ==
    LET classes      == NpUnique(y)
        class_counts == ClassCounts(y)
    IN  IF \E i \in DOMAIN class_counts : class_counts[i] < 2 THEN [error |-> "ValueError"]
        ELSE IF n_train < Len(classes) \/ n_test < Len(classes) THEN [error |-> "ValueError"]
        ELSE AssignTest(y, n_test, ApproximateMode(class_counts, n_train, SeedState(seed)))

\* the four arrays train_test_split returns for the indices idx
SplitArrays(data, labels, idx) ==
    IF idx.error # None THEN [error |-> idx.error]
    ELSE [error |-> None,
          train_set_data        |-> Take(data, idx.train),
          validation_set_data   |-> Take(data, idx.test),
          train_set_labels      |-> Take(labels, idx.train),
          validation_set_labels |-> Take(labels, idx.test)]

\* train_test_split(data, labels, test_size=0.25, stratify=labels, random_state=seed):
\* n_test = ceil(0.25 * n), n_train = floor(0.75 * n), both exact in doubles
TrainTestSplit(data, labels, seed) ==
    LET n_samples == Len(labels)
        n_test    == (n_samples + 3) \div 4
        n_train   == (3 * n_samples) \div 4
    IN  IF n_samples = 0 \/ n_train = 0 THEN [error |-> "ValueError"]
        ELSE SplitArrays(data, labels, StratifiedIndices(labels, n_train, n_test, seed))

\* for l in raw: s["labels"].extend([self.label_map[l]])
Encoded(raw, lm) == [i \in 1..Len(raw) |-> lm[raw[i]]]

\* s["data"] = array: the array of the group replaces what was stored
StoreData(old, new) == new

\* zip(a, b, c, d) stops at the shortest list
ZipLen4(a, b, c, d) == Min(Min(Len(a), Len(b)), Min(Len(c), Len(d)))

\* the assignments and extends of one group, given the arrays sp of its
\* train_test_split
StoreGroup(acc, lm, test_set_data, test_set_labels, sp) ==
    [error |-> None,
     test  |-> [data   |-> StoreData(acc.test.data, test_set_data),
                labels |-> acc.test.labels \o Encoded(test_set_labels, lm)],
     train |-> [data   |-> StoreData(acc.train.data, sp.train_set_data),
                labels |-> acc.train.labels \o Encoded(sp.train_set_labels, lm)],
     val   |-> [data   |-> StoreData(acc.val.data, sp.validation_set_data),
                labels |-> acc.val.labels \o Encoded(sp.validation_set_labels, lm)],
     rng   |-> acc.rng]

\* the body of the loop for one group: the exception of train_test_split
\* leaves _get_splits, otherwise the group is stored
PreGroup(acc, lm, test_set_data, test_set_labels, sp) ==
    IF sp.error # None THEN [acc EXCEPT !.error = sp.error]
    ELSE StoreGroup(acc, lm, test_set_data, test_set_labels, sp)

RECURSIVE PreGroups(_, _, _, _)
\* for train_data_path, train_labels_path, test_data_path, test_labels_path in zip(...)
PreGroups(acc, c, k, lm) ==
    IF acc.error # None THEN acc
    ELSE IF k > ZipLen4(c.train_data_path, c.train_labels_path,
                        c.test_data_path, c.test_labels_path) THEN acc
    ELSE PreGroups(PreGroup(acc, lm, c.test_data_path[k], c.test_labels_path[k],
                            TrainTestSplit(c.train_data_path[k], c.train_labels_path[k],
                                           c.seed)),
                   c, k + 1, lm)

\* the if branch of _get_splits; numpy's global generator is not drawn from
PreSplits(c, lm, rng) ==
    PreGroups([error |-> None, train |-> EmptySet, val |-> EmptySet, test |-> EmptySet,
               rng |-> rng], c, 1, lm)

\* _get_splits
GetSplits(c, lm, rng) ==
    IF c.use_pre_split THEN PreSplits(c, lm, rng) ELSE GenSplits(c, lm, rng)

----------------------------------------------------------------------------
(* SAMRamanDataset *)

\* __len__
DatasetLen(ds) == Len(ds.labels)

\* seq[idx] of a Python list or numpy array: a negative idx counts from the end
PyIndex(seq, idx) == IF idx >= 0 THEN seq[idx + 1] ELSE seq[Len(seq) + idx + 1]

InBounds(seq, idx) == -Len(seq) <= idx /\ idx < Len(seq)

\* __getitem__(idx): the (data, label) pair, or the IndexError of the first
\* failing lookup
GetItem(ds, idx) ==
    IF ~InBounds(ds.data, idx) \/ ~InBounds(ds.labels, idx)
    THEN [error |-> "IndexError", data |-> None, label |-> None]
    ELSE [error |-> None, data |-> PyIndex(ds.data, idx), label |-> PyIndex(ds.labels, idx)]

----------------------------------------------------------------------------
(* SAMRaman.__init__ and _create_dataloaders *)

\* np.random.seed(seed) left out: the generator keeps the state it has
NpRandomSeed_Missing(state, seed) == state

\* np.random.seed(seed): the state of the global generator afterwards
NpRandomSeed(state, seed) == SeedState(seed)

\* DataLoader(dataset, shuffle=shuffle): with shuffle=True the loader builds a
\* RandomSampler, whose constructor raises ValueError for an empty dataset
DataLoaderError(ds, shuffle) ==
    IF shuffle /\ DatasetLen(ds) = 0 THEN "ValueError" ELSE None

\* _create_dataloaders: the first exception of the three constructions
CreateDataloadersError(train, val, test) ==
    IF DataLoaderError(train, TRUE) # None THEN DataLoaderError(train, TRUE)
    ELSE IF DataLoaderError(val, FALSE) # None THEN DataLoaderError(val, FALSE)
    ELSE DataLoaderError(test, FALSE)

\* what the caller keeps of a construction: the exception or the partitions
Outcome == [status |-> status, train |-> train_set, val |-> val_set, test |-> test_set]

\* no iterator made yet / no pass finished yet on the current object
NoIterator == [loader |-> "none", order |-> <<>>, pos |-> 0, out |-> <<>>, state |-> "none"]
NoPass == [loader |-> "none", out |-> <<>>]

\* the exception that ends __init__, if any: of _get_splits or of _create_dataloaders
InitError(sp) ==
    IF sp.error # None THEN sp.error ELSE CreateDataloadersError(sp.train, sp.val, sp.test)

\* the fields of the object after __init__ with label map lm and splits sp
Constructed(lm, sp) ==
    /\ np_state' = sp.rng
    /\ status' = IF InitError(sp) = None THEN "ok" ELSE InitError(sp)
    /\ label_map' = IF InitError(sp) = None THEN lm ELSE <<>>
    /\ inverse_map' = IF InitError(sp) = None THEN InverseMapOf(lm) ELSE <<>>
    /\ train_set' = IF InitError(sp) = None THEN sp.train ELSE EmptySet
    /\ val_set' = IF InitError(sp) = None THEN sp.val ELSE EmptySet
    /\ test_set' = IF InitError(sp) = None THEN sp.test ELSE EmptySet

\* self._get_splits() after np.random.seed(seed) and _get_label_mapping()
SplitsOf(c, lm, state) == GetSplits(c, lm, NpRandomSeed(state, c.seed))

\* SAMRaman(**cfg)
Construct ==
    /\ builds < MaxBuilds
    /\ Constructed(LabelMapOf(GatheredLabels(cfg)),
                   SplitsOf(cfg, LabelMapOf(GatheredLabels(cfg)), np_state))
    /\ earlier' = Outcome
    /\ builds' = builds + 1
    /\ it' = NoIterator
    /\ prev_pass' = NoPass
    /\ passes' = 0
    /\ draws' = 0
    /\ UNCHANGED <<cfg, torch_state>>

\* other code of the process draws from numpy's global generator (the
\* generator is read by constructions only: a run makes its constructions,
\* with draws of other code before and between them, and then iterates over
\* the loaders of the object constructed last)
OtherDraw ==
    /\ builds < MaxBuilds
    /\ draws < MaxDraws
    /\ np_state' = LCGNext(np_state)
    /\ draws' = draws + 1
    /\ UNCHANGED <<cfg, torch_state, builds, status, label_map, inverse_map,
                   train_set, val_set, test_set, earlier, it, prev_pass, passes>>

----------------------------------------------------------------------------
(* Iteration over the DataLoaders *)

Loaders == {"train", "val", "test"}

DatasetOf(loader) ==
    IF loader = "train" THEN train_set ELSE IF loader = "val" THEN val_set ELSE test_set

\* shuffle argument of the loader
ShuffleOf(loader) == loader = "train"

\* iter(loader): the sampler's index order.  RandomSampler draws a seed from
\* torch's global generator and permutes range(len(dataset)) with it;
\* SequentialSampler is range(len(dataset))
StartPass(loader) ==
    /\ status = "ok"
    /\ builds = MaxBuilds
    /\ passes < MaxPasses
    /\ it.state # "active"
    /\ LET n  == DatasetLen(DatasetOf(loader))
           s1 == LCGNext(torch_state)
       IN  IF ShuffleOf(loader)
           THEN /\ torch_state' = s1
                /\ it' = [loader |-> loader, order |-> Permutation(Arange(n), s1).arr,
                          pos |-> 0, out |-> <<>>, state |-> "active"]
           ELSE /\ torch_state' = torch_state
                /\ it' = [loader |-> loader, order |-> Arange(n),
                          pos |-> 0, out |-> <<>>, state |-> "active"]
    /\ prev_pass' = IF it.state = "done"
                    THEN [loader |-> it.loader, out |-> it.out]
                    ELSE prev_pass
    /\ passes' = passes + 1
    /\ UNCHANGED <<cfg, np_state, builds, status, label_map, inverse_map,
                   train_set, val_set, test_set, earlier, draws>>

\* next(iterator): the next batch_size indices of the order are fetched with
\* __getitem__; StopIteration at the end; an exception of __getitem__ ends the pass
NextBatch ==
    /\ it.state = "active"
    /\ LET ds    == DatasetOf(it.loader)
           idxs  == PySlice(it.order, it.pos, it.pos + cfg.batch_size)
           batch == [k \in 1..Len(idxs) |-> GetItem(ds, idxs[k])]
       IN  it' = IF it.pos >= Len(it.order) THEN [it EXCEPT !.state = "done"]
                 ELSE IF \E k \in 1..Len(idxs) : batch[k].error # None
                      THEN [it EXCEPT !.state = "IndexError"]
                      ELSE [it EXCEPT !.pos = it.pos + Len(idxs),
                                      !.out = Append(it.out, batch)]
    /\ UNCHANGED <<cfg, np_state, torch_state, builds, status, label_map, inverse_map,
                   train_set, val_set, test_set, earlier, prev_pass, passes, draws>>

----------------------------------------------------------------------------
(* Inputs *)

\* all label arrays of at most n rows
LabelArrays(n) == UNION {[1..m -> RawLabels] : m \in 0..n}

\* the spectra array of n rows stored in file k: row j has id 100 * k + j
SpectraFile(k, n) == [j \in 1..n |-> 100 * k + (j - 1)]

\* a list of the configuration that is one entry longer than the others
ExtraKinds(lists) == IF Len(lists) <= 1 THEN {"none", "labels", "other"} ELSE {"none"}

\* constructor arguments of generation mode for the aligned sources srcs
\* (label array and patient interval of each); extra makes one list longer
GenCfg(srcs, extra, batch_size, seed) ==
    [use_pre_split     |-> FALSE,
     spectral_dirs     |-> [k \in 1..Len(srcs) |-> SpectraFile(k, Len(srcs[k].labels))],
     label_dirs        |-> [k \in 1..Len(srcs) |-> srcs[k].labels]
                           \o (IF extra = "labels" THEN <<<<7>>>> ELSE <<>>),
     patient_intervals |-> [k \in 1..Len(srcs) |-> srcs[k].p]
                           \o (IF extra = "other" THEN <<1>> ELSE <<>>),
     train_data_path   |-> <<>>,
     train_labels_path |-> <<>>,
     test_data_path    |-> <<>>,
     test_labels_path  |-> <<>>,
     batch_size        |-> batch_size,
     seed              |-> seed]

\* constructor arguments of pre-split mode for the aligned groups grps
\* (train and test label array of each); extra makes one list longer
PreCfg(grps, extra, batch_size, seed) ==
    [use_pre_split     |-> TRUE,
     spectral_dirs     |-> <<>>,
     label_dirs        |-> <<>>,
     patient_intervals |-> <<>>,
     train_data_path   |-> [k \in 1..Len(grps) |-> SpectraFile(k, Len(grps[k].train))],
     train_labels_path |-> [k \in 1..Len(grps) |-> grps[k].train]
                           \o (IF extra = "labels" THEN <<<<7, 7>>>> ELSE <<>>),
     test_data_path    |-> [k \in 1..Len(grps) |-> SpectraFile(k + 4, Len(grps[k].test))]
                           \o (IF extra = "other" THEN <<SpectraFile(9, 1)>> ELSE <<>>),
     test_labels_path  |-> [k \in 1..Len(grps) |-> grps[k].test],
     batch_size        |-> batch_size,
     seed              |-> seed]

GenSourceLists ==
    {<<>>}
    \cup {<<[labels |-> a, p |-> p]>> : a \in LabelArrays(MaxLen), p \in 1..MaxP}
    \cup {<<[labels |-> a, p |-> p], [labels |-> b, p |-> q]>> :
            a \in LabelArrays(MaxLen - 1), p \in 1..MaxP,
            b \in LabelArrays(MaxLen2), q \in 1..MaxP}

PreGroupLists ==
    {<<>>}
    \cup {<<[train |-> a, test |-> t]>> :
            a \in LabelArrays(MaxLen + 1), t \in LabelArrays(MaxLen2)}
    \cup {<<[train |-> a, test |-> t], [train |-> b, test |-> u]>> :
            a \in LabelArrays(MaxLen2 + 1), t \in LabelArrays(MaxLen2),
            b \in LabelArrays(MaxLen2 + 1), u \in LabelArrays(MaxLen2)}

Configs ==
    UNION {{GenCfg(srcs, extra, MaxBatch, s) : extra \in ExtraKinds(srcs), s \in 0..MaxSeed} :
            srcs \in GenSourceLists}
    \cup
    UNION {{PreCfg(grps, extra, MaxBatch, s) : extra \in ExtraKinds(grps), s \in 0..MaxSeed} :
            grps \in PreGroupLists}

\* one source with count rows of one label, followed by a few rows of a second
\* one, and the default batch_size = 16 and seed = 42 of the constructor
CountConfigs ==
    {GenCfg(<<[labels |-> Repeat(3, count) \o Repeat(7, more), p |-> p]>>, "none", 16, 42) :
        count \in 0..MaxCount, more \in 0..MaxLen2, p \in 1..MaxP}

InitWith(configs) ==
    /\ cfg \in configs
    /\ np_state = 0
    /\ torch_state = 0
    /\ builds = 0
    /\ status = "none"
    /\ label_map = <<>>
    /\ inverse_map = <<>>
    /\ train_set = EmptySet
    /\ val_set = EmptySet
    /\ test_set = EmptySet
    /\ earlier = [status |-> "none", train |-> EmptySet, val |-> EmptySet, test |-> EmptySet]
    /\ it = NoIterator
    /\ prev_pass = NoPass
    /\ passes = 0
    /\ draws = 0

Init == InitWith(Configs)

InitCount == InitWith(CountConfigs)

Next ==
    \/ Construct
    \/ OtherDraw
    \/ \E loader \in Loaders : StartPass(loader)
    \/ NextBatch

Spec == Init /\ [][Next]_vars

SpecCount == InitCount /\ [][Next]_vars

----------------------------------------------------------------------------
(* Vocabulary of the properties *)

\* the data sequences of the three partitions
PartData == <<train_set.data, val_set.data, test_set.data>>

\* the label sequences of the three partitions
PartLabels == <<train_set.labels, val_set.labels, test_set.labels>>

AllData == train_set.data \o val_set.data \o test_set.data

\* how often x occurs in seq
Occurrences(seq, x) == Cardinality({i \in DOMAIN seq : seq[i] = x})

\* every row of rows is stored once in one and the same partition and in no other
WholeInOnePartition(rows) ==
    \E a \in 1..3 :
        /\ \A r \in rows : Occurrences(PartData[a], r) = 1
        /\ \A b \in (1..3) \ {a} : \A r \in rows : Occurrences(PartData[b], r) = 0

\* the sources / groups the loop of _get_splits is meant to visit
GenGroups == 1..ZipLen3(cfg.spectral_dirs, cfg.label_dirs, cfg.patient_intervals)
PreGroupIds == 1..ZipLen4(cfg.train_data_path, cfg.train_labels_path,
                          cfg.test_data_path, cfg.test_labels_path)

\* the raw label the input files give to the sample with row id row
RawLabelOf(row) ==
    LET k == row \div 100
        j == (row % 100) + 1
    IN  IF ~cfg.use_pre_split THEN cfg.label_dirs[k][j]
        ELSE IF k <= 4 THEN cfg.train_labels_path[k][j]
        ELSE cfg.test_labels_path[k - 4][j]

\* the aligned lists of the selected mode have the same length
ListsAligned ==
    IF cfg.use_pre_split
    THEN /\ Len(cfg.train_data_path) = Len(cfg.train_labels_path)
         /\ Len(cfg.train_data_path) = Len(cfg.test_data_path)
         /\ Len(cfg.train_data_path) = Len(cfg.test_labels_path)
    ELSE /\ Len(cfg.spectral_dirs) = Len(cfg.label_dirs)
         /\ Len(cfg.spectral_dirs) = Len(cfg.patient_intervals)

\* ceil(n / b)
CeilDiv(n, b) == (n + b - 1) \div b

\* the examples a finished or running pass has yielded, in order
Yielded(batches) == Flatten(batches)

\* the examples of a partition in stored order
Stored(ds) ==
    [i \in 1..Len(ds.labels) |-> [error |-> None, data |-> ds.data[i], label |-> ds.labels[i]]]

\* number of rows of the rows set that are stored in the data sequence
CountIn(data, rows) == Cardinality({i \in DOMAIN data : data[i] \in rows})

----------------------------------------------------------------------------
(* C1 *)

\* C1: after a completed construction the three partitions are pairwise
\* disjoint and cover the input: in generation mode every patient block of
\* every (source, label) group lies whole in exactly one partition and the
\* count % p trailing samples of the group lie in none; in pre-split mode
\* every row of every group's train and test array lies in exactly one
\* partition.
C1_PartitionsCoverInput ==
    status = "ok" =>
        IF cfg.use_pre_split
        THEN \A k \in PreGroupIds :
                \A r \in Range(cfg.train_data_path[k]) \cup Range(cfg.test_data_path[k]) :
                    Occurrences(AllData, r) = 1
        ELSE \A k \in GenGroups : \A l \in Range(cfg.label_dirs[k]) :
                LET label_spectra == Mask(cfg.spectral_dirs[k], cfg.label_dirs[k], l)
                    p             == cfg.patient_intervals[k]
                    n             == Len(label_spectra) \div p
                IN  /\ \A i \in 0..(n - 1) :
                            WholeInOnePartition(Range(Block(label_spectra, i, p)))
                    /\ \A j \in (n * p + 1)..Len(label_spectra) :
                            Occurrences(AllData, label_spectra[j]) = 0

----------------------------------------------------------------------------
(* C2 *)

\* C2: after a completed construction the data and the label sequence of
\* every partition have the same length, and the label at every index is the
\* label map's code of the raw label of the sample at that index.
C2_DataLabelsAligned ==
    status = "ok" =>
        \A a \in 1..3 :
            /\ Len(PartData[a]) = Len(PartLabels[a])
            /\ \A i \in 1..Min(Len(PartData[a]), Len(PartLabels[a])) :
                    PartLabels[a][i] = label_map[RawLabelOf(PartData[a][i])]

----------------------------------------------------------------------------
(* C3 *)

\* C3: the label map gives the distinct raw labels of all configured label
\* files the codes 0..num_classes-1 in ascending order of the raw values, and
\* _get_original_label maps the code of every such label back to the label.
C3_LabelMapBijective ==
    status = "ok" =>
        LET raw == Range(GatheredLabels(cfg))
        IN  /\ DOMAIN label_map = raw
            /\ {label_map[l] : l \in raw} = 0..(Cardinality(raw) - 1)
            /\ \A l1, l2 \in raw : l1 < l2 => label_map[l1] < label_map[l2]
            /\ \A l \in raw : GetOriginalLabel(label_map[l]) = l

\* an object whose label files hold two distinct labels, one of them twice
C3_Witness ==
    /\ status = "ok"
    /\ Cardinality(DOMAIN label_map) = 2
    /\ Len(GatheredLabels(cfg)) > 2

----------------------------------------------------------------------------
(* C4 *)

\* C4: a construction with the same seed and inputs as an earlier one ends
\* the same way, with the same partitions in the same order, whatever was
\* drawn from the generators before it.
C4_Deterministic ==
    builds >= 2 => earlier = Outcome

\* a second construction in generation mode whose train partition is not in
\* file order (the permutation drawn is not the identity)
C4_Witness ==
    /\ builds >= 2
    /\ status = "ok"
    /\ ~cfg.use_pre_split
    /\ \E i \in 1..(Len(train_set.data) - 1) : train_set.data[i] > train_set.data[i + 1]

----------------------------------------------------------------------------
(* C5 *)

\* C5: a construction whose splits were built succeeds even when a partition
\* is empty, and a full pass over a partition of N examples yields
\* ceil(N / batch_size) batches, all of batch_size examples except possibly
\* the last, that contain every example of the partition exactly once.
C5_BatchesCoverPartition ==
    /\ (builds > 0 /\ SplitsOf(cfg, LabelMapOf(GatheredLabels(cfg)), np_state).error = None)
            => status = "ok"
    /\ it.state # "IndexError"
    /\ it.state = "done" =>
            LET ds == DatasetOf(it.loader)
                N  == Len(ds.data)
            IN  /\ Len(it.out) = CeilDiv(N, cfg.batch_size)
                /\ \A b \in 1..(Len(it.out) - 1) : Len(it.out[b]) = cfg.batch_size
                /\ Len(Yielded(it.out)) = N
                /\ \A e \in Range(Stored(ds)) :
                        Occurrences(Yielded(it.out), e) = Occurrences(Stored(ds), e)

----------------------------------------------------------------------------
(* C6 *)

\* C6: __getitem__(idx) returns a pair only for 0 <= idx < len(dataset); for
\* every other idx, negative ones included, it fails with an IndexError.
C6_GetItemInRangeOnly ==
    status = "ok" =>
        \A a \in 1..3 : \A idx \in (-MaxIdx)..MaxIdx :
            LET ds == [data |-> PartData[a], labels |-> PartLabels[a]]
            IN  GetItem(ds, idx).error = None => (0 <= idx /\ idx < DatasetLen(ds))

----------------------------------------------------------------------------
(* C7 *)

\* C7: when the aligned lists of the selected mode differ in length the
\* construction fails; it never completes.
C7_MismatchedListsFail ==
    (builds > 0 /\ ~ListsAligned) => status # "ok"

----------------------------------------------------------------------------
(* C8 *)

\* blocks counts of the partitions for one (source, label) group: the group's
\* samples stored in each partition and the labels stored with them
GroupSplit(k, l, train_blocks, val_blocks, test_blocks) ==
    LET rows == Range(Mask(cfg.spectral_dirs[k], cfg.label_dirs[k], l))
        p    == cfg.patient_intervals[k]
    IN  /\ CountIn(train_set.data, rows) = p * train_blocks
        /\ CountIn(val_set.data, rows) = p * val_blocks
        /\ CountIn(test_set.data, rows) = p * test_blocks
        /\ \A a \in 1..3 : \A i \in DOMAIN PartData[a] :
                PartData[a][i] \in rows =>
                    /\ i <= Len(PartLabels[a])
                    /\ PartLabels[a][i] = label_map[l]

\* the number of patient blocks of the group of label l in source k
NumPatients(k, l) ==
    Len(Mask(cfg.spectral_dirs[k], cfg.label_dirs[k], l)) \div cfg.patient_intervals[k]

\* C8 as stated: in generation mode every (source, label) group with n patient
\* blocks gives floor(0.7 n) blocks to train, floor(0.85 n) - floor(0.7 n) to
\* validation and n - floor(0.85 n) to test, each block with p samples and p
\* copies of the label's code.
C8_SplitSizesExact ==
    (status = "ok" /\ ~cfg.use_pre_split) =>
        \A k \in GenGroups : \A l \in Range(cfg.label_dirs[k]) :
            LET n == NumPatients(k, l)
            IN  GroupSplit(k, l, (7 * n) \div 10,
                           ((17 * n) \div 20) - ((7 * n) \div 10),
                           n - ((17 * n) \div 20))

\* 1 for the n below 170 at which the double product 0.7 * n is rounded
\* below the integer 7n/10 (int(0.7 * 90) = 62), else 0
RoundedBelow(n) == IF n = 90 THEN 1 ELSE 0

\* C8 amended: as C8, for n < 170, but at n = 90 train receives 62 blocks
\* (one fewer than floor(0.7 n) = 63) and validation 14 (one more).
C8_SplitSizesAsComputed ==
    (status = "ok" /\ ~cfg.use_pre_split) =>
        \A k \in GenGroups : \A l \in Range(cfg.label_dirs[k]) :
            LET n == NumPatients(k, l)
            IN  n < 170 =>
                    GroupSplit(k, l, ((7 * n) \div 10) - RoundedBelow(n),
                               ((17 * n) \div 20) - ((7 * n) \div 10) + RoundedBelow(n),
                               n - ((17 * n) \div 20))

\* an object built from a group of 90 patient blocks, and the 62 / 14 / 14
\* blocks it is split into
C8_Witness ==
    /\ status = "ok"
    /\ ~cfg.use_pre_split
    /\ \E k \in GenGroups : \E l \in Range(cfg.label_dirs[k]) :
            /\ NumPatients(k, l) = 90
            /\ GroupSplit(k, l, 62, 14, 14)

----------------------------------------------------------------------------
(* C9 *)

\* the rows of the array that are stored in the data sequence, in stored order
StoredOf(data, array) == SelectSeq(data, LAMBDA r : r \in Range(array))

\* C9: in pre-split mode the test partition holds the test examples of every
\* group in their stored order, and the train array of every group is divided
\* into disjoint train and validation subsets, a quarter (rounded up) in
\* validation, every class of the array present in both.
C9_PreSplitShape ==
    (status = "ok" /\ cfg.use_pre_split) =>
        \A k \in PreGroupIds :
            LET tr == cfg.train_data_path[k]
                te == cfg.test_data_path[k]
            IN  /\ StoredOf(test_set.data, te) = te
                /\ \A r \in Range(tr) :
                        Occurrences(train_set.data \o val_set.data, r) = 1
                /\ CountIn(val_set.data, Range(tr)) = CeilDiv(Len(tr), 4)
                /\ \A l \in Range(cfg.train_labels_path[k]) :
                        /\ \E r \in Range(tr) \cap Range(train_set.data) : RawLabelOf(r) = l
                        /\ \E r \in Range(tr) \cap Range(val_set.data) : RawLabelOf(r) = l

----------------------------------------------------------------------------
(* C10 *)

\* C10: every pass runs to its end; a pass over the validation or the test
\* loader yields the partition in stored order, the same sequence as the pass
\* before it, and a pass over the train loader yields a permutation of the
\* train partition.
C10_PassesOrdered ==
    /\ it.state # "IndexError"
    /\ (it.state = "done" /\ ~ShuffleOf(it.loader)) =>
            /\ Yielded(it.out) = Stored(DatasetOf(it.loader))
            /\ prev_pass.loader = it.loader => it.out = prev_pass.out
    /\ (it.state = "done" /\ ShuffleOf(it.loader)) =>
            /\ Len(Yielded(it.out)) = Len(train_set.data)
            /\ \A e \in Range(Stored(train_set)) :
                    Occurrences(Yielded(it.out), e) = Occurrences(Stored(train_set), e)

====
